---- MODULE Spec2Model ----
(***************************************************************************)
(* Loan lifecycle chaincode (src/chaincode/chaincode.go).                  *)
(*                                                                         *)
(* The world state is a key-value store from loan ids to the JSON bytes    *)
(* of a Loan.  Every handler of LoanContract is modelled as the function   *)
(* the code computes: from the arguments and the store to a peer.Response  *)
(* and the store after it.  Under Spec one invocation is one step: it is   *)
(* simulated and committed at once.  Under SpecMVCC a transaction is       *)
(* simulated against the committed store and committed later, if the       *)
(* versions it read are still current.  Under SpecBoth the same call is    *)
(* given to LoanContract, on store, and to SmartContract, on scstore.       *)
(***************************************************************************)
EXTENDS Integers, Sequences, FiniteSets, TLC

VARIABLES store, resp, version, txs, scstore, scerr

vars == <<store, resp, version, txs, scstore, scerr>>

(***************************************************************************)
(* Bounds of the model.                                                    *)
(***************************************************************************)
\* An invocation is taken only if it leaves at most this many audit entries
\* in the store, over all loans.  Every repayment appends an entry, so this
\* bounds the balances too.
MaxAudit == 4
\* The number of transactions in flight under SpecMVCC.
MaxTx == 2

(***************************************************************************)
(* float64 values.  The integers the model uses are exact in float64; NaN  *)
(* and the infinities are kept because strconv.ParseFloat returns them     *)
(* and json.Marshal refuses them.                                          *)
(***************************************************************************)
Fin(n) == [k |-> "fin", v |-> n]
NaN == [k |-> "nan", v |-> 0]
PosInf == [k |-> "inf", v |-> 1]
NegInf == [k |-> "inf", v |-> -1]

IsFin(x) == x.k = "fin"

\* x - y in float64
FSub(x, y) ==
    IF x.k = "nan" \/ y.k = "nan" THEN NaN
    ELSE IF x.k = "fin" /\ y.k = "fin" THEN Fin(x.v - y.v)
    ELSE IF x.k = "inf" /\ y.k = "inf"
         THEN (IF x.v = y.v THEN NaN ELSE x)
    ELSE IF x.k = "inf" THEN x
    ELSE [k |-> "inf", v |-> 0 - y.v]

\* x <= 0 in float64 (false for NaN)
FLeZero(x) ==
    CASE x.k = "fin" -> x.v <= 0
      [] x.k = "inf" -> x.v < 0
      [] OTHER -> FALSE

\* fmt.Sprintf("%f", x)
FormatF(x) ==
    CASE x.k = "fin" -> ToString(x.v) \o ".000000"
      [] x.k = "inf" -> (IF x.v > 0 THEN "+Inf" ELSE "-Inf")
      [] OTHER -> "NaN"

(***************************************************************************)
(* The argument strings the model draws from, and what the strconv         *)
(* functions make of them.                                                 *)
(***************************************************************************)
LoanIds == {"L1", "L2"}
BorrowerIds == {"B1"}
LenderIds == {"LEN1", "LEN2"}
Dates == {"2024-01-01"}
Collaterals == {"gold"}
AmountArgs == {"1000", "NaN", "abc"}
DurationArgs == {"12", "x"}
RepayArgs == {"400", "700", "1000", "0", "-50", "NaN", "abc"}

ParseOk(x) == [err |-> FALSE, val |-> x]
ParseErr == [err |-> TRUE, val |-> NaN]

\* strconv.ParseFloat(s, 64)
ParseFloat(s) ==
    CASE s = "1000" -> ParseOk(Fin(1000))
      [] s = "700" -> ParseOk(Fin(700))
      [] s = "400" -> ParseOk(Fin(400))
      [] s = "12" -> ParseOk(Fin(12))
      [] s = "0" -> ParseOk(Fin(0))
      [] s = "-50" -> ParseOk(Fin(-50))
      [] s = "NaN" -> ParseOk(NaN)
      [] s = "Inf" -> ParseOk(PosInf)
      [] OTHER -> ParseErr

\* strconv.Atoi(s)
Atoi(s) ==
    CASE s = "1000" -> [err |-> FALSE, val |-> 1000]
      [] s = "700" -> [err |-> FALSE, val |-> 700]
      [] s = "400" -> [err |-> FALSE, val |-> 400]
      [] s = "12" -> [err |-> FALSE, val |-> 12]
      [] s = "0" -> [err |-> FALSE, val |-> 0]
      [] s = "-50" -> [err |-> FALSE, val |-> -50]
      [] OTHER -> [err |-> TRUE, val |-> 0]

(***************************************************************************)
(* The Loan struct and its JSON encoding.                                  *)
(***************************************************************************)
\* Loan{}: the zero value of the struct
ZeroLoan ==
    [LoanID |-> "", BorrowerID |-> "", LenderID |-> "", Amount |-> Fin(0),
     InterestRate |-> Fin(0), Duration |-> 0, Status |-> "",
     DisbursementDate |-> "", RepaymentDue |-> Fin(0),
     RemainingBalance |-> Fin(0), Collateral |-> "", Defaulted |-> FALSE,
     AuditHistory |-> << >>]

\* No bytes: what GetState returns for a key that was never written
NilBytes == [nil |-> TRUE]

\* json.Marshal(loan): the object keyed by the json tags; an error for a
\* float that JSON cannot represent
Marshal(loan) ==
    IF /\ IsFin(loan.Amount) /\ IsFin(loan.InterestRate)
       /\ IsFin(loan.RepaymentDue) /\ IsFin(loan.RemainingBalance)
    THEN [err |-> FALSE,
          bytes |-> [loanId |-> loan.LoanID,
                     borrowerId |-> loan.BorrowerID,
                     lenderId |-> loan.LenderID,
                     amount |-> loan.Amount.v,
                     interestRate |-> loan.InterestRate.v,
                     duration |-> loan.Duration,
                     status |-> loan.Status,
                     disbursementDate |-> loan.DisbursementDate,
                     repaymentDue |-> loan.RepaymentDue.v,
                     remainingBalance |-> loan.RemainingBalance.v,
                     collateral |-> loan.Collateral,
                     defaulted |-> loan.Defaulted,
                     auditHistory |-> loan.AuditHistory]]
    ELSE [err |-> TRUE, bytes |-> NilBytes]

\* json.Unmarshal(bytes, &loan) into a zero Loan: a key the object lacks
\* leaves the field at its zero value; bytes that are no object are an error
Unmarshal(bytes) ==
    IF "loanId" \notin DOMAIN bytes
    THEN [err |-> TRUE, loan |-> ZeroLoan]
    ELSE [err |-> FALSE,
          loan |-> [LoanID |-> bytes.loanId,
                    BorrowerID |-> bytes.borrowerId,
                    LenderID |-> bytes.lenderId,
                    Amount |-> Fin(bytes.amount),
                    InterestRate |-> Fin(bytes.interestRate),
                    Duration |-> bytes.duration,
                    Status |-> bytes.status,
                    DisbursementDate |-> bytes.disbursementDate,
                    RepaymentDue |-> Fin(bytes.repaymentDue),
                    RemainingBalance |-> Fin(bytes.remainingBalance),
                    Collateral |-> (IF "collateral" \in DOMAIN bytes
                                    THEN bytes.collateral ELSE ""),
                    Defaulted |-> bytes.defaulted,
                    AuditHistory |-> (IF "auditHistory" \in DOMAIN bytes
                                      THEN bytes.auditHistory ELSE << >>)]]

(***************************************************************************)
(* The stub: the store the invocation sees, and the call the platform      *)
(* fails ("get", "put") if any.                                            *)
(***************************************************************************)
Stub(state, fault) == [state |-> state, fault |-> fault]

\* stub.GetState(key)
GetState(stub, key) ==
    IF stub.fault = "get" THEN [err |-> TRUE, bytes |-> NilBytes]
    ELSE IF key \in DOMAIN stub.state
         THEN [err |-> FALSE, bytes |-> stub.state[key]]
         ELSE [err |-> FALSE, bytes |-> NilBytes]

\* stub.PutState(key, bytes)
PutState(stub, key, bytes) ==
    IF stub.fault = "put" THEN [err |-> TRUE, state |-> stub.state]
    ELSE [err |-> FALSE,
          state |-> [k \in (DOMAIN stub.state) \cup {key} |->
                        IF k = key THEN bytes ELSE stub.state[k]]]

\* shim.Success(payload) and shim.Error(msg), with the store the invocation
\* leaves behind
Success(payload, state) ==
    [status |-> 200, message |-> "", payload |-> payload, state |-> state]
Error(msg, state) ==
    [status |-> 500, message |-> msg, payload |-> NilBytes, state |-> state]

(***************************************************************************)
(* LoanContract: the handlers.  Each is the function from the stub and the *)
(* arguments to the response, in the order of the code's checks.           *)
(***************************************************************************)
\* LoanContract.RequestLoan
RequestLoan(stub, args) ==
    IF Len(args) # 4
    THEN Error("Incorrect number of arguments. Expected 4", stub.state)
    ELSE
    LET loanID == args[1]
        borrowerID == args[2]
        amount == ParseFloat(args[3])
        duration == Atoi(args[4])
    IN  IF amount.err THEN Error("Invalid loan amount", stub.state)
        ELSE IF duration.err THEN Error("Invalid loan duration", stub.state)
        ELSE
        LET loan == [ZeroLoan EXCEPT !.LoanID = loanID,
                                     !.BorrowerID = borrowerID,
                                     !.Amount = amount.val,
                                     !.Duration = duration.val,
                                     !.Status = "Pending",
                                     !.RemainingBalance = amount.val]
            m == Marshal(loan)
        IN  IF m.err THEN Error("Error marshalling loan object", stub.state)
            ELSE
            LET put == PutState(stub, loanID, m.bytes)
            IN  IF put.err THEN Error("Failed to request loan", stub.state)
                ELSE Success(NilBytes, put.state)

\* The tail every mutating handler shares: json.Marshal, stub.PutState,
\* shim.Success(nil)
Save(stub, loanID, loan, failure) ==
    LET m == Marshal(loan)
    IN  IF m.err THEN Error("Error marshalling loan object", stub.state)
        ELSE
        LET put == PutState(stub, loanID, m.bytes)
        IN  IF put.err THEN Error(failure, stub.state)
            ELSE Success(NilBytes, put.state)

\* ApproveLoan without the status check of lines 120-122
ApproveLoanAnyStatus(stub, args) ==
    IF Len(args) # 2
    THEN Error("Incorrect number of arguments. Expected 2", stub.state)
    ELSE
    LET got == GetState(stub, args[1])
    IN  IF got.err \/ got.bytes = NilBytes
        THEN Error("Loan not found", stub.state)
        ELSE
        LET u == Unmarshal(got.bytes)
        IN  IF u.err THEN Error("Error unmarshalling loan object", stub.state)
            ELSE Save(stub, args[1],
                      [u.loan EXCEPT
                          !.LenderID = args[2],
                          !.Status = "Approved",
                          !.AuditHistory = Append(@, "Loan Approved")],
                      "Failed to approve loan")

\* LoanContract.ApproveLoan
ApproveLoan(stub, args) ==
    IF Len(args) # 2
    THEN Error("Incorrect number of arguments. Expected 2", stub.state)
    ELSE
    LET loanID == args[1]
        lenderID == args[2]
        got == GetState(stub, loanID)
    IN  IF got.err \/ got.bytes = NilBytes
        THEN Error("Loan not found", stub.state)
        ELSE
        LET u == Unmarshal(got.bytes)
        IN  IF u.err THEN Error("Error unmarshalling loan object", stub.state)
            ELSE IF u.loan.Status # "Pending"
            THEN Error("Loan is not in Pending status", stub.state)
            ELSE Save(stub, loanID,
                      [u.loan EXCEPT
                          !.LenderID = lenderID,
                          !.Status = "Approved",
                          !.AuditHistory = Append(@, "Loan Approved")],
                      "Failed to approve loan")

\* DisburseLoan that appends no audit entry
DisburseLoanNoAudit(stub, args) ==
    IF Len(args) # 2
    THEN Error("Incorrect number of arguments. Expected 2", stub.state)
    ELSE
    LET got == GetState(stub, args[1])
    IN  IF got.err \/ got.bytes = NilBytes
        THEN Error("Loan not found", stub.state)
        ELSE
        LET u == Unmarshal(got.bytes)
        IN  IF u.err THEN Error("Error unmarshalling loan object", stub.state)
            ELSE IF u.loan.Status # "Approved"
            THEN Error("Loan is not approved", stub.state)
            ELSE Save(stub, args[1],
                      [u.loan EXCEPT
                          !.Status = "Active",
                          !.DisbursementDate = args[2]],
                      "Failed to disburse loan")

\* DisburseLoan that also sets the amount due to the principal
DisburseLoanSetsDue(stub, args) ==
    IF Len(args) # 2
    THEN Error("Incorrect number of arguments. Expected 2", stub.state)
    ELSE
    LET got == GetState(stub, args[1])
    IN  IF got.err \/ got.bytes = NilBytes
        THEN Error("Loan not found", stub.state)
        ELSE
        LET u == Unmarshal(got.bytes)
        IN  IF u.err THEN Error("Error unmarshalling loan object", stub.state)
            ELSE IF u.loan.Status # "Approved"
            THEN Error("Loan is not approved", stub.state)
            ELSE Save(stub, args[1],
                      [u.loan EXCEPT
                          !.Status = "Active",
                          !.DisbursementDate = args[2],
                          !.RepaymentDue = u.loan.Amount,
                          !.AuditHistory = Append(@, "Loan Disbursed")],
                      "Failed to disburse loan")

\* LoanContract.DisburseLoan
DisburseLoan(stub, args) ==
    IF Len(args) # 2
    THEN Error("Incorrect number of arguments. Expected 2", stub.state)
    ELSE
    LET loanID == args[1]
        disbursementDate == args[2]
        got == GetState(stub, loanID)
    IN  IF got.err \/ got.bytes = NilBytes
        THEN Error("Loan not found", stub.state)
        ELSE
        LET u == Unmarshal(got.bytes)
        IN  IF u.err THEN Error("Error unmarshalling loan object", stub.state)
            ELSE IF u.loan.Status # "Approved"
            THEN Error("Loan is not approved", stub.state)
            ELSE Save(stub, loanID,
                      [u.loan EXCEPT
                          !.Status = "Active",
                          !.DisbursementDate = disbursementDate,
                          !.AuditHistory = Append(@, "Loan Disbursed")],
                      "Failed to disburse loan")

\* LoanContract.RepayLoan, lines 209-214: the balance, the status and the
\* audit entry after a repayment
ApplyRepayment(loan, repaymentAmount) ==
    LET balance == FSub(loan.RemainingBalance, repaymentAmount)
    IN  [loan EXCEPT
            !.RemainingBalance = balance,
            !.Status = IF FLeZero(balance) THEN "Repaid" ELSE @,
            !.AuditHistory =
                Append(@, "Repayment of " \o FormatF(repaymentAmount)
                              \o " made")]

\* RepayLoan that rejects a repayment that is not positive
RepayLoanPositiveOnly(stub, args) ==
    IF Len(args) # 2
    THEN Error("Incorrect number of arguments. Expected 2", stub.state)
    ELSE
    LET repaymentAmount == ParseFloat(args[2])
    IN  IF repaymentAmount.err \/ FLeZero(repaymentAmount.val)
        THEN Error("Invalid repayment amount", stub.state)
        ELSE
        LET got == GetState(stub, args[1])
        IN  IF got.err \/ got.bytes = NilBytes
            THEN Error("Loan not found", stub.state)
            ELSE
            LET u == Unmarshal(got.bytes)
            IN  IF u.err
                THEN Error("Error unmarshalling loan object", stub.state)
                ELSE IF u.loan.Status # "Active"
                THEN Error("Loan is not active", stub.state)
                ELSE Save(stub, args[1],
                          ApplyRepayment(u.loan, repaymentAmount.val),
                          "Failed to repay loan")

\* RepayLoan that persists the repayment before it checks the status
RepayLoanWriteFirst(stub, args) ==
    IF Len(args) # 2
    THEN Error("Incorrect number of arguments. Expected 2", stub.state)
    ELSE
    LET repaymentAmount == ParseFloat(args[2])
        got == GetState(stub, args[1])
    IN  IF repaymentAmount.err
        THEN Error("Invalid repayment amount", stub.state)
        ELSE IF got.err \/ got.bytes = NilBytes
        THEN Error("Loan not found", stub.state)
        ELSE
        LET u == Unmarshal(got.bytes)
            saved == Save(stub, args[1],
                          ApplyRepayment(u.loan, repaymentAmount.val),
                          "Failed to repay loan")
        IN  IF u.err
            THEN Error("Error unmarshalling loan object", stub.state)
            ELSE IF u.loan.Status # "Active"
            THEN Error("Loan is not active", saved.state)
            ELSE saved

\* LoanContract.RepayLoan
RepayLoan(stub, args) ==
    IF Len(args) # 2
    THEN Error("Incorrect number of arguments. Expected 2", stub.state)
    ELSE
    LET loanID == args[1]
        repaymentAmount == ParseFloat(args[2])
    IN  IF repaymentAmount.err
        THEN Error("Invalid repayment amount", stub.state)
        ELSE
        LET got == GetState(stub, loanID)
        IN  IF got.err \/ got.bytes = NilBytes
            THEN Error("Loan not found", stub.state)
            ELSE
            LET u == Unmarshal(got.bytes)
            IN  IF u.err
                THEN Error("Error unmarshalling loan object", stub.state)
                ELSE IF u.loan.Status # "Active"
                THEN Error("Loan is not active", stub.state)
                ELSE Save(stub, loanID,
                          ApplyRepayment(u.loan, repaymentAmount.val),
                          "Failed to repay loan")

\* CheckLoanStatus that creates an empty record for a loan it does not find
CheckLoanStatusCreates(stub, args) ==
    IF Len(args) # 1
    THEN Error("Incorrect number of arguments. Expected 1", stub.state)
    ELSE
    LET got == GetState(stub, args[1])
    IN  IF got.err \/ got.bytes = NilBytes
        THEN Error("Loan not found",
                   PutState(stub, args[1],
                            Marshal([ZeroLoan EXCEPT !.LoanID = args[1]]).bytes
                           ).state)
        ELSE Success(got.bytes, stub.state)

\* LoanContract.CheckLoanStatus
CheckLoanStatus(stub, args) ==
    IF Len(args) # 1
    THEN Error("Incorrect number of arguments. Expected 1", stub.state)
    ELSE
    LET got == GetState(stub, args[1])
    IN  IF got.err \/ got.bytes = NilBytes
        THEN Error("Loan not found", stub.state)
        ELSE Success(got.bytes, stub.state)

\* MarkAsDefaulted that sets the status and leaves the flag
MarkAsDefaultedStatusOnly(stub, args) ==
    IF Len(args) # 1
    THEN Error("Incorrect number of arguments. Expected 1", stub.state)
    ELSE
    LET got == GetState(stub, args[1])
    IN  IF got.err \/ got.bytes = NilBytes
        THEN Error("Loan not found", stub.state)
        ELSE
        LET u == Unmarshal(got.bytes)
        IN  IF u.err THEN Error("Error unmarshalling loan object", stub.state)
            ELSE IF u.loan.Status # "Active"
            THEN Error("Loan is not active", stub.state)
            ELSE Save(stub, args[1],
                      [u.loan EXCEPT
                          !.Status = "Defaulted",
                          !.AuditHistory = Append(@, "Loan Defaulted")],
                      "Failed to mark loan as defaulted")

\* LoanContract.MarkAsDefaulted
MarkAsDefaulted(stub, args) ==
    IF Len(args) # 1
    THEN Error("Incorrect number of arguments. Expected 1", stub.state)
    ELSE
    LET loanID == args[1]
        got == GetState(stub, loanID)
    IN  IF got.err \/ got.bytes = NilBytes
        THEN Error("Loan not found", stub.state)
        ELSE
        LET u == Unmarshal(got.bytes)
        IN  IF u.err THEN Error("Error unmarshalling loan object", stub.state)
            ELSE IF u.loan.Status # "Active"
            THEN Error("Loan is not active", stub.state)
            ELSE Save(stub, loanID,
                      [u.loan EXCEPT
                          !.Defaulted = TRUE,
                          !.Status = "Defaulted",
                          !.AuditHistory = Append(@, "Loan Defaulted")],
                      "Failed to mark loan as defaulted")

\* LoanContract.AddCollateral
AddCollateral(stub, args) ==
    IF Len(args) # 2
    THEN Error("Incorrect number of arguments. Expected 2", stub.state)
    ELSE
    LET loanID == args[1]
        collateral == args[2]
        got == GetState(stub, loanID)
    IN  IF got.err \/ got.bytes = NilBytes
        THEN Error("Loan not found", stub.state)
        ELSE
        LET u == Unmarshal(got.bytes)
        IN  IF u.err THEN Error("Error unmarshalling loan object", stub.state)
            ELSE IF u.loan.Status # "Pending" /\ u.loan.Status # "Approved"
            THEN Error("Loan cannot accept collateral in the current state",
                       stub.state)
            ELSE Save(stub, loanID,
                      [u.loan EXCEPT
                          !.Collateral = collateral,
                          !.AuditHistory =
                              Append(@, "Collateral added: " \o collateral)],
                      "Failed to add collateral")

\* LoanContract.GetLoanHistory
GetLoanHistory(stub, args) ==
    IF Len(args) # 1
    THEN Error("Incorrect number of arguments. Expected 1", stub.state)
    ELSE
    LET got == GetState(stub, args[1])
    IN  IF got.err \/ got.bytes = NilBytes
        THEN Error("Loan not found", stub.state)
        ELSE Success(got.bytes, stub.state)

\* Invoke whose default case answers shim.Success(nil)
InvokeDefaultSuccess(stub, function, args) ==
    CASE function = "RequestLoan" -> RequestLoan(stub, args)
      [] function = "ApproveLoan" -> ApproveLoan(stub, args)
      [] function = "DisburseLoan" -> DisburseLoan(stub, args)
      [] function = "RepayLoan" -> RepayLoan(stub, args)
      [] function = "CheckLoanStatus" -> CheckLoanStatus(stub, args)
      [] function = "MarkAsDefaulted" -> MarkAsDefaulted(stub, args)
      [] function = "AddCollateral" -> AddCollateral(stub, args)
      [] function = "GetLoanHistory" -> GetLoanHistory(stub, args)
      [] OTHER -> Success(NilBytes, stub.state)

\* LoanContract.Invoke: the switch on the function name
Invoke(stub, function, args) ==
    CASE function = "RequestLoan" -> RequestLoan(stub, args)
      [] function = "ApproveLoan" -> ApproveLoan(stub, args)
      [] function = "DisburseLoan" -> DisburseLoan(stub, args)
      [] function = "RepayLoan" -> RepayLoan(stub, args)
      [] function = "CheckLoanStatus" -> CheckLoanStatus(stub, args)
      [] function = "MarkAsDefaulted" -> MarkAsDefaulted(stub, args)
      [] function = "AddCollateral" -> AddCollateral(stub, args)
      [] function = "GetLoanHistory" -> GetLoanHistory(stub, args)
      [] OTHER -> Error("Invalid function name", stub.state)

(***************************************************************************)
(* The state machine: one step is one invocation, run to completion.       *)
(***************************************************************************)
\* LoanContract.Init: nothing is stored, the response is shim.Success(nil)
Init ==
    /\ store = << >>
    /\ resp = [function |-> "Init", args |-> << >>, status |-> 200,
               message |-> "", payload |-> NilBytes]
    /\ version = << >>
    /\ txs = << >>
    /\ scstore = << >>
    /\ scerr = ""

RECURSIVE AuditEntries(_, _)
AuditEntries(state, keys) ==
    IF keys = {} THEN 0
    ELSE LET k == CHOOSE x \in keys : TRUE
         IN  Len(state[k].auditHistory) + AuditEntries(state, keys \ {k})

Bounded(state) == AuditEntries(state, DOMAIN state) <= MaxAudit

\* Every amount with a well-formed duration, and every duration with a
\* well-formed amount (the amount is parsed first)
RequestLoanArgs ==
    {<<l, b, a, "12">> : l \in LoanIds, b \in BorrowerIds, a \in AmountArgs}
    \cup {<<l, b, "1000", d>> : l \in LoanIds, b \in BorrowerIds,
                                d \in DurationArgs}
ApproveLoanArgs == {<<l, n>> : l \in LoanIds, n \in LenderIds}
DisburseLoanArgs == {<<l, d>> : l \in LoanIds, d \in Dates}
RepayLoanArgs == {<<l, a>> : l \in LoanIds, a \in RepayArgs}
AddCollateralArgs == {<<l, c>> : l \in LoanIds, c \in Collaterals}
LoanIdArgs == {<<l>> : l \in LoanIds}

\* The faults injected: a failing write under the handlers that write, a
\* failing read under the handlers that only read.
WriteFaults == {"none", "put"}
ReadFaults == {"none", "get"}

\* The response recorded for a call
Response(function, args, r) ==
    [function |-> function, args |-> args, status |-> r.status,
     message |-> r.message, payload |-> r.payload]

\* Each operation is called with well-formed arguments or with none at all;
\* the store becomes what the invocation left.
DoRequestLoan ==
    \E args \in RequestLoanArgs \cup {<< >>}, f \in WriteFaults :
        \E r \in {Invoke(Stub(store, f), "RequestLoan", args)} :
            /\ Bounded(r.state)
            /\ store' = r.state
            /\ resp' = Response("RequestLoan", args, r)
            /\ UNCHANGED <<version, txs, scstore, scerr>>

DoApproveLoan ==
    \E args \in ApproveLoanArgs \cup {<< >>}, f \in WriteFaults :
        \E r \in {Invoke(Stub(store, f), "ApproveLoan", args)} :
            /\ Bounded(r.state)
            /\ store' = r.state
            /\ resp' = Response("ApproveLoan", args, r)
            /\ UNCHANGED <<version, txs, scstore, scerr>>

DoDisburseLoan ==
    \E args \in DisburseLoanArgs \cup {<< >>}, f \in WriteFaults :
        \E r \in {Invoke(Stub(store, f), "DisburseLoan", args)} :
            /\ Bounded(r.state)
            /\ store' = r.state
            /\ resp' = Response("DisburseLoan", args, r)
            /\ UNCHANGED <<version, txs, scstore, scerr>>

DoRepayLoan ==
    \E args \in RepayLoanArgs \cup {<< >>}, f \in WriteFaults :
        \E r \in {Invoke(Stub(store, f), "RepayLoan", args)} :
            /\ Bounded(r.state)
            /\ store' = r.state
            /\ resp' = Response("RepayLoan", args, r)
            /\ UNCHANGED <<version, txs, scstore, scerr>>

DoCheckLoanStatus ==
    \E args \in LoanIdArgs \cup {<< >>}, f \in ReadFaults :
        \E r \in {Invoke(Stub(store, f), "CheckLoanStatus", args)} :
            /\ Bounded(r.state)
            /\ store' = r.state
            /\ resp' = Response("CheckLoanStatus", args, r)
            /\ UNCHANGED <<version, txs, scstore, scerr>>

DoMarkAsDefaulted ==
    \E args \in LoanIdArgs \cup {<< >>}, f \in WriteFaults :
        \E r \in {Invoke(Stub(store, f), "MarkAsDefaulted", args)} :
            /\ Bounded(r.state)
            /\ store' = r.state
            /\ resp' = Response("MarkAsDefaulted", args, r)
            /\ UNCHANGED <<version, txs, scstore, scerr>>

DoAddCollateral ==
    \E args \in AddCollateralArgs \cup {<< >>}, f \in WriteFaults :
        \E r \in {Invoke(Stub(store, f), "AddCollateral", args)} :
            /\ Bounded(r.state)
            /\ store' = r.state
            /\ resp' = Response("AddCollateral", args, r)
            /\ UNCHANGED <<version, txs, scstore, scerr>>

DoGetLoanHistory ==
    \E args \in LoanIdArgs \cup {<< >>}, f \in ReadFaults :
        \E r \in {Invoke(Stub(store, f), "GetLoanHistory", args)} :
            /\ Bounded(r.state)
            /\ store' = r.state
            /\ resp' = Response("GetLoanHistory", args, r)
            /\ UNCHANGED <<version, txs, scstore, scerr>>

\* A function name the switch does not know
DoUnknown ==
    \E args \in LoanIdArgs :
        \E r \in {Invoke(Stub(store, "none"), "DeleteLoan", args)} :
            /\ Bounded(r.state)
            /\ store' = r.state
            /\ resp' = Response("DeleteLoan", args, r)
            /\ UNCHANGED <<version, txs, scstore, scerr>>

Next ==
    \/ DoRequestLoan
    \/ DoApproveLoan
    \/ DoDisburseLoan
    \/ DoRepayLoan
    \/ DoCheckLoanStatus
    \/ DoMarkAsDefaulted
    \/ DoAddCollateral
    \/ DoGetLoanHistory
    \/ DoUnknown

Spec == Init /\ [][Next]_vars

(***************************************************************************)
(* Concurrent transactions.  The platform simulates a transaction against  *)
(* the committed store, recording the version of every key it read and the *)
(* values it wrote, and commits it later only if every version it read is  *)
(* still the committed one; the chaincode takes no lock.                   *)
(***************************************************************************)
TxIds == 1 .. MaxTx

\* Handlers that keep the loan they work on in memory and do not read it
\* through the stub
ReadKeysCached(function, args) ==
    CASE function \in {"CheckLoanStatus", "GetLoanHistory"}
             -> IF Len(args) = 1 THEN {args[1]} ELSE {}
      [] OTHER -> {}

\* The keys a handler reads with stub.GetState before it returns
ReadKeys(function, args) ==
    CASE function \in {"ApproveLoan", "DisburseLoan", "AddCollateral"}
             -> IF Len(args) = 2 THEN {args[1]} ELSE {}
      [] function = "RepayLoan"
             -> IF Len(args) = 2 /\ ~ParseFloat(args[2]).err
                THEN {args[1]} ELSE {}
      [] function \in {"CheckLoanStatus", "MarkAsDefaulted",
                       "GetLoanHistory"}
             -> IF Len(args) = 1 THEN {args[1]} ELSE {}
      [] OTHER -> {}

\* The keys a handler that returned r wrote with stub.PutState
WriteKeys(function, args, r) ==
    IF /\ r.status = 200
       /\ function \in {"RequestLoan", "ApproveLoan", "DisburseLoan",
                        "RepayLoan", "MarkAsDefaulted", "AddCollateral"}
    THEN {args[1]}
    ELSE {}

\* The committed version of a key: the number of committed writes to it
VersionOf(k) == IF k \in DOMAIN version THEN version[k] ELSE 0

IdleTx ==
    [phase |-> "idle", function |-> "", args |-> << >>, seen |-> << >>,
     snap |-> << >>, reads |-> << >>, writes |-> << >>, wrote |-> << >>]

\* The committed store the transactions start from: loan L1 requested,
\* approved and disbursed, each by a committed invocation
ActiveStore ==
    LET s1 == RequestLoan(Stub(<< >>, "none"),
                          <<"L1", "B1", "1000", "12">>).state
        s2 == ApproveLoan(Stub(s1, "none"), <<"L1", "LEN1">>).state
    IN  DisburseLoan(Stub(s2, "none"), <<"L1", "2024-01-01">>).state

InitMVCC ==
    /\ store = ActiveStore
    /\ version = [k \in DOMAIN ActiveStore |->
                     Len(ActiveStore[k].auditHistory) + 1]
    /\ txs = [t \in TxIds |-> IdleTx]
    /\ resp = [function |-> "Init", args |-> << >>, status |-> 200,
               message |-> "", payload |-> NilBytes]
    /\ scstore = << >>
    /\ scerr = ""

Proposals ==
    {[function |-> "RepayLoan", args |-> a] : a \in RepayLoanArgs}
    \cup {[function |-> "MarkAsDefaulted", args |-> a] : a \in LoanIdArgs}
    \cup {[function |-> "RequestLoan", args |-> <<l, "B1", "1000", "12">>] :
              l \in LoanIds}

\* Simulation: the handler runs to completion against the committed store
\* (snap, at the versions seen).  A handler that fails is not submitted.
EndorseTx(t) ==
    /\ txs[t].phase = "idle"
    /\ \E p \in Proposals :
        \E r \in {Invoke(Stub(store, "none"), p.function, p.args)} :
            txs' = [txs EXCEPT ![t] =
                [phase |-> IF r.status = 200 THEN "endorsed" ELSE "failed",
                 function |-> p.function,
                 args |-> p.args,
                 seen |-> version,
                 snap |-> store,
                 reads |-> [k \in ReadKeys(p.function, p.args) |->
                               VersionOf(k)],
                 writes |-> [k \in WriteKeys(p.function, p.args, r) |->
                                r.state[k]],
                 wrote |-> << >>]]
    /\ UNCHANGED <<store, version, resp, scstore, scerr>>

ReadsCurrent(t) ==
    \A k \in DOMAIN txs[t].reads : txs[t].reads[k] = VersionOf(k)

\* Validation succeeds: the writes are applied, the versions advance
CommitTx(t) ==
    /\ txs[t].phase = "endorsed"
    /\ ReadsCurrent(t)
    /\ store' = [k \in (DOMAIN store) \cup (DOMAIN txs[t].writes) |->
                    IF k \in DOMAIN txs[t].writes
                    THEN txs[t].writes[k] ELSE store[k]]
    /\ version' = [k \in (DOMAIN version) \cup (DOMAIN txs[t].writes) |->
                      IF k \in DOMAIN txs[t].writes
                      THEN VersionOf(k) + 1 ELSE version[k]]
    /\ txs' = [txs EXCEPT ![t].phase = "committed",
                          ![t].wrote = [k \in DOMAIN txs[t].writes |->
                                           VersionOf(k) + 1]]
    /\ UNCHANGED <<resp, scstore, scerr>>

\* Validation fails: a version the transaction read is no longer current
RejectTx(t) ==
    /\ txs[t].phase = "endorsed"
    /\ ~ReadsCurrent(t)
    /\ txs' = [txs EXCEPT ![t].phase = "invalid"]
    /\ UNCHANGED <<store, version, resp, scstore, scerr>>

NextMVCC ==
    \E t \in TxIds : EndorseTx(t) \/ CommitTx(t) \/ RejectTx(t)

SpecMVCC == InitMVCC /\ [][NextMVCC]_vars

(***************************************************************************)
(* Properties.                                                             *)
(***************************************************************************)
Edges ==
    {<<"Pending", "Approved">>, <<"Approved", "Active">>,
     <<"Active", "Repaid">>, <<"Active", "Defaulted">>}

Terminal == {"Repaid", "Defaulted"}

\* The step is a call of `function` with a full argument list naming loan l
Called(function, l) ==
    /\ resp'.function = function
    /\ Len(resp'.args) > 0
    /\ resp'.args[1] = l

\* C1: every invocation leaves the stored status of every loan unchanged or
\* moves it along one edge of Pending -> Approved -> Active ->
\* {Repaid, Defaulted}; none moves it backward or skips a state.
C1_StatusFollowsEdges ==
    [][\A l \in (DOMAIN store) \cap (DOMAIN store') :
          \/ store'[l].status = store[l].status
          \/ <<store[l].status, store'[l].status>> \in Edges]_vars

\* C2: RequestLoan with a loanId that is already in the store fails and
\* leaves the store unchanged.
C2_DuplicateRequestRejected ==
    [][\A l \in DOMAIN store :
          (Called("RequestLoan", l) /\ Len(resp'.args) = 4)
              => (resp'.status = 500 /\ store' = store)]_vars

\* C3: once the stored status of a loan is Repaid or Defaulted, no
\* invocation changes it.
C3_TerminalIsFinal ==
    [][\A l \in DOMAIN store :
          store[l].status \in Terminal
              => (l \in DOMAIN store' /\ store'[l].status = store[l].status)]_vars

\* C4: a loan that is Active, Repaid or Defaulted has
\* 0 <= remainingBalance <= amount.
C4_BalanceWithinPrincipal ==
    \A l \in DOMAIN store :
        store[l].status \in {"Active", "Repaid", "Defaulted"}
            => (0 <= store[l].remainingBalance
                /\ store[l].remainingBalance <= store[l].amount)

\* C5: a successful RepayLoan of a positive amount a on a loan with balance b
\* leaves status Repaid and balance exactly 0 when a >= b, and status Active
\* and balance b - a otherwise.
C5_RepaymentClampsAtZero ==
    [][\A l \in DOMAIN store :
          (/\ Called("RepayLoan", l)
           /\ resp'.status = 200
           /\ IsFin(ParseFloat(resp'.args[2]).val)
           /\ ParseFloat(resp'.args[2]).val.v > 0)
          => LET a == ParseFloat(resp'.args[2]).val.v
                 b == store[l].remainingBalance
             IN  IF a >= b
                 THEN /\ store'[l].status = "Repaid"
                      /\ store'[l].remainingBalance = 0
                 ELSE /\ store'[l].status = "Active"
                      /\ store'[l].remainingBalance = b - a]_vars

\* C6: an invocation that returns a failure leaves the whole store as it
\* was.
C6_FailureWritesNothing ==
    [][resp'.status = 500 => store' = store]_vars

\* C6 witness: a RepayLoan on an Active loan passed every check, changed the
\* record in memory, and failed at the write.
C6_Witness ==
    /\ resp.function = "RepayLoan"
    /\ resp.status = 500
    /\ resp.message = "Failed to repay loan"
    /\ resp.args[2] = "400"
    /\ resp.args[1] \in DOMAIN store
    /\ store[resp.args[1]].status = "Active"
    /\ store[resp.args[1]].remainingBalance = store[resp.args[1]].amount

\* Two transactions that are both RepayLoan on loan l, simulated on the same
\* version of it
SameSnapshot(t1, t2, l) ==
    /\ t1 # t2
    /\ txs[t1].phase \in {"endorsed", "committed", "invalid"}
    /\ txs[t2].phase \in {"endorsed", "committed", "invalid"}
    /\ txs[t1].function = "RepayLoan" /\ txs[t1].args[1] = l
    /\ txs[t2].function = "RepayLoan" /\ txs[t2].args[1] = l
    /\ l \in DOMAIN txs[t1].seen
    /\ txs[t1].seen[l] = txs[t2].seen[l]

\* Some transaction other than t1 and t2 committed a write to l after the
\* version v
OtherWriter(t1, t2, l, v) ==
    \E t \in TxIds \ {t1, t2} :
        /\ txs[t].phase = "committed"
        /\ l \in DOMAIN txs[t].wrote
        /\ txs[t].wrote[l] > v

\* C7: of two RepayLoan transactions that read the same version of a loan,
\* never both commit; once both are validated and no third transaction has
\* written the loan since, exactly one has committed, and the committed
\* balance is the balance they read less the one committed repayment.
C7_OneRepaymentCommits ==
    \A l \in LoanIds : \A t1, t2 \in TxIds :
        SameSnapshot(t1, t2, l)
        => /\ ~(txs[t1].phase = "committed" /\ txs[t2].phase = "committed")
           /\ (/\ txs[t1].phase = "committed"
               /\ txs[t2].phase = "invalid"
               /\ ~OtherWriter(t1, t2, l, txs[t1].seen[l]))
                  => /\ store[l] = txs[t1].writes[l]
                     /\ store[l].remainingBalance =
                            txs[t1].snap[l].remainingBalance
                                - ParseFloat(txs[t1].args[2]).val.v
           /\ (/\ txs[t1].phase # "endorsed"
               /\ txs[t2].phase # "endorsed"
               /\ ~OtherWriter(t1, t2, l, txs[t1].seen[l]))
                  => (txs[t1].phase = "committed"
                      \/ txs[t2].phase = "committed")

\* C7 witness: both repayments (400 and 700) were simulated on the same
\* version of the Active loan, the first committed, the second was rejected,
\* and the balance is 1000 - 400.
C7_Witness ==
    \E t1, t2 \in TxIds :
        /\ SameSnapshot(t1, t2, "L1")
        /\ txs[t1].args = <<"L1", "400">>
        /\ txs[t2].args = <<"L1", "700">>
        /\ txs[t1].snap["L1"].status = "Active"
        /\ txs[t1].phase = "committed"
        /\ txs[t2].phase = "invalid"
        /\ store["L1"].remainingBalance = 600

\* C8: an ApproveLoan on a Pending loan whose write goes through succeeds
\* and stores the lender; an ApproveLoan that directly follows a successful
\* one on the same loan fails with "Loan is not in Pending status" and
\* leaves the store (lenderId, status, auditHistory) as it was, whichever
\* lender it names.
C8_SecondApproveRejected ==
    [][\A l \in DOMAIN store :
          (Called("ApproveLoan", l) /\ Len(resp'.args) = 2)
          => /\ (store[l].status = "Pending"
                 /\ resp'.message # "Failed to approve loan")
                    => /\ resp'.status = 200
                       /\ store'[l].status = "Approved"
                       /\ store'[l].lenderId = resp'.args[2]
             /\ (resp.function = "ApproveLoan" /\ resp.status = 200
                 /\ resp.args[1] = l)
                    => /\ resp'.status = 500
                       /\ resp'.message = "Loan is not in Pending status"
                       /\ store' = store]_vars

\* C8 witness: the rejected second approval named another lender than the
\* one stored, and the record holds the one approval.
C8_Witness ==
    /\ resp.function = "ApproveLoan"
    /\ resp.status = 500
    /\ resp.message = "Loan is not in Pending status"
    /\ resp.args[1] \in DOMAIN store
    /\ store[resp.args[1]].status = "Approved"
    /\ store[resp.args[1]].lenderId # resp.args[2]
    /\ store[resp.args[1]].auditHistory = <<"Loan Approved">>

\* C9: lenderId is empty until a successful ApproveLoan writes it, and after
\* that no invocation clears or changes it.
C9_LenderSetOnce ==
    [][\A l \in DOMAIN store' :
          LET old == IF l \in DOMAIN store THEN store[l].lenderId ELSE ""
              new == store'[l].lenderId
          IN  \/ new = old
              \/ /\ old = ""
                 /\ Called("ApproveLoan", l)
                 /\ resp'.status = 200
                 /\ resp'.args[2] = new]_vars

\* C10: AddCollateral succeeds only on a Pending or Approved loan, and the
\* collateral of an Active, Repaid or Defaulted loan is never changed by any
\* invocation.
C10_CollateralFrozenOnceActive ==
    [][\A l \in DOMAIN store :
          /\ (Called("AddCollateral", l) /\ resp'.status = 200)
                => store[l].status \in {"Pending", "Approved"}
          /\ store[l].status \in {"Active", "Repaid", "Defaulted"}
                => /\ l \in DOMAIN store'
                   /\ store'[l].collateral = store[l].collateral]_vars

\* s is a prefix of t
IsPrefix(s, t) == Len(s) <= Len(t) /\ SubSeq(t, 1, Len(s)) = s

\* The auditHistory stored for l in state st; empty for a loan not stored
AuditOf(st, l) == IF l \in DOMAIN st THEN st[l].auditHistory ELSE << >>

\* C11: for every loan and every invocation, the auditHistory stored before
\* is a prefix of the auditHistory stored after.
C11_AuditAppendOnly ==
    [][\A l \in DOMAIN store :
          /\ l \in DOMAIN store'
          /\ IsPrefix(store[l].auditHistory, store'[l].auditHistory)]_vars

Mutators ==
    {"ApproveLoan", "DisburseLoan", "RepayLoan", "MarkAsDefaulted",
     "AddCollateral"}

\* C12: a successful ApproveLoan, DisburseLoan, RepayLoan, MarkAsDefaulted
\* or AddCollateral appends exactly one entry to the loan's auditHistory
\* ("Loan Approved" and "Loan Disbursed" for the first two); a failed or
\* read-only invocation leaves every auditHistory as it was; a successful
\* RequestLoan stores an empty one.  So a RepayLoan of the whole principal
\* on a loan whose history is exactly <<"Loan Approved", "Loan Disbursed">>
\* leaves status Repaid, remainingBalance 0 and those two entries followed
\* by the one repayment entry.
C12_OneEntryPerTransition ==
    [][/\ \A l \in DOMAIN store' :
            LET old == AuditOf(store, l)
                new == store'[l].auditHistory
            IN  IF resp'.status = 200 /\ Len(resp'.args) > 0
                   /\ resp'.args[1] = l
                   /\ resp'.function \in Mutators \cup {"RequestLoan"}
                THEN IF resp'.function = "RequestLoan"
                     THEN new = << >>
                     ELSE /\ Len(new) = Len(old) + 1
                          /\ IsPrefix(old, new)
                          /\ resp'.function = "ApproveLoan"
                                => new[Len(new)] = "Loan Approved"
                          /\ resp'.function = "DisburseLoan"
                                => new[Len(new)] = "Loan Disbursed"
                ELSE new = old
       /\ (/\ Called("RepayLoan", "L1")
           /\ resp'.status = 200
           /\ resp'.args[2] = "1000"
           /\ store["L1"].amount = 1000
           /\ store["L1"].remainingBalance = 1000
           /\ store["L1"].auditHistory = <<"Loan Approved", "Loan Disbursed">>)
          => /\ store'["L1"].status = "Repaid"
             /\ store'["L1"].remainingBalance = 0
             /\ store'["L1"].auditHistory =
                    <<"Loan Approved", "Loan Disbursed",
                      "Repayment of 1000.000000 made">>]_vars

\* C12 witness: the end of RequestLoan, ApproveLoan, DisburseLoan and
\* RepayLoan of the whole principal.
C12_Witness ==
    /\ resp.function = "RepayLoan"
    /\ resp.status = 200
    /\ resp.args = <<"L1", "1000">>
    /\ "L1" \in DOMAIN store
    /\ store["L1"].status = "Repaid"
    /\ store["L1"].remainingBalance = 0
    /\ store["L1"].lenderId = "LEN1"
    /\ store["L1"].auditHistory =
           <<"Loan Approved", "Loan Disbursed",
             "Repayment of 1000.000000 made">>

\* C13: CheckLoanStatus and GetLoanHistory leave the store as it was; when
\* they succeed they return the stored record of the loan, which they do
\* for every stored loan the platform can read; on a loanId that is not
\* stored they fail with "Loan not found".
C13_ReadsWriteNothing ==
    [][resp'.function \in {"CheckLoanStatus", "GetLoanHistory"}
          => /\ store' = store
             /\ resp'.status = 200
                   => /\ resp'.args[1] \in DOMAIN store
                      /\ resp'.payload = store[resp'.args[1]]
             /\ (Len(resp'.args) = 1 /\ resp'.args[1] \notin DOMAIN store)
                   => /\ resp'.status = 500
                      /\ resp'.message = "Loan not found"
             /\ \A l \in DOMAIN store :
                   /\ CheckLoanStatus(Stub(store, "none"), <<l>>)
                          = Success(store[l], store)
                   /\ GetLoanHistory(Stub(store, "none"), <<l>>)
                          = Success(store[l], store)]_vars

\* C13 witness: CheckLoanStatus on a loanId that is not stored, beside a
\* stored loan.
C13_Witness ==
    /\ resp.function = "CheckLoanStatus"
    /\ resp.status = 500
    /\ resp.message = "Loan not found"
    /\ Len(resp.args) = 1
    /\ resp.args[1] \notin DOMAIN store
    /\ DOMAIN store # {}

\* C14: after every invocation defaulted is true exactly for the loans whose
\* status is Defaulted; the flag is raised only by a successful
\* MarkAsDefaulted, which succeeds only on an Active loan.
C14_DefaultedIffStatus ==
    [][/\ \A l \in DOMAIN store' :
            /\ store'[l].defaulted <=> store'[l].status = "Defaulted"
            /\ (store'[l].defaulted
                /\ ~(l \in DOMAIN store /\ store[l].defaulted))
                  => /\ Called("MarkAsDefaulted", l)
                     /\ resp'.status = 200
       /\ (resp'.function = "MarkAsDefaulted" /\ resp'.status = 200)
             => /\ resp'.args[1] \in DOMAIN store
                /\ store[resp'.args[1]].status = "Active"]_vars

\* C14 witness: a loan marked as defaulted.
C14_Witness ==
    /\ resp.function = "MarkAsDefaulted"
    /\ resp.status = 200
    /\ store[resp.args[1]].defaulted
    /\ store[resp.args[1]].status = "Defaulted"

\* C15: RepayLoan of 0 or of a negative amount on an Active loan with a
\* positive balance succeeds when the write goes through: the status stays
\* Active, one audit entry is appended, and the balance is unchanged for 0
\* and raised by k for -k.
C15_NonPositiveRepaymentAccepted ==
    [][\A l \in DOMAIN store :
          (/\ Called("RepayLoan", l)
           /\ Len(resp'.args) = 2
           /\ resp'.args[2] \in {"0", "-50"}
           /\ store[l].status = "Active"
           /\ store[l].remainingBalance > 0
           /\ resp'.message # "Failed to repay loan")
          => /\ resp'.status = 200
             /\ store'[l].status = "Active"
             /\ store'[l].remainingBalance =
                    store[l].remainingBalance
                        + (IF resp'.args[2] = "0" THEN 0 ELSE 50)
             /\ Len(store'[l].auditHistory)
                    = Len(store[l].auditHistory) + 1]_vars

\* C15 witness: a repayment of -50 raised the balance above the principal.
C15_Witness ==
    /\ resp.function = "RepayLoan"
    /\ resp.status = 200
    /\ resp.args[2] = "-50"
    /\ store[resp.args[1]].status = "Active"
    /\ store[resp.args[1]].remainingBalance = store[resp.args[1]].amount + 50

Functions ==
    {"RequestLoan", "ApproveLoan", "DisburseLoan", "RepayLoan",
     "CheckLoanStatus", "MarkAsDefaulted", "AddCollateral", "GetLoanHistory"}

\* C18: an invocation whose function name is none of the eight fails with
\* "Invalid function name" and leaves the store as it was.
C18_UnknownFunctionRejected ==
    [][resp'.function \notin Functions
          => /\ resp'.status = 500
             /\ resp'.message = "Invalid function name"
             /\ store' = store]_vars

\* C18 witness: an unknown function called on a stored loan.
C18_Witness ==
    /\ resp.function \notin Functions \cup {"Init"}
    /\ resp.status = 500
    /\ resp.args[1] \in DOMAIN store

\* C19: an invocation with loanId L leaves the record of every other loan
\* as it was and creates no other record; a successful ApproveLoan,
\* DisburseLoan, RepayLoan, MarkAsDefaulted or AddCollateral on L leaves L's
\* loanId, borrowerId, amount, interestRate, duration and repaymentDue as
\* they were.
C19_OnlyTheNamedLoan ==
    [][/\ \A k \in (DOMAIN store) \cup (DOMAIN store') :
            (Len(resp'.args) = 0 \/ resp'.args[1] # k)
               => /\ k \in DOMAIN store
                  /\ k \in DOMAIN store'
                  /\ store'[k] = store[k]
       /\ (resp'.function \in Mutators /\ resp'.status = 200)
             => LET l == resp'.args[1]
                IN  /\ store'[l].loanId = store[l].loanId
                    /\ store'[l].borrowerId = store[l].borrowerId
                    /\ store'[l].amount = store[l].amount
                    /\ store'[l].interestRate = store[l].interestRate
                    /\ store'[l].duration = store[l].duration
                    /\ store'[l].repaymentDue = store[l].repaymentDue]_vars

\* C19 witness: a successful DisburseLoan on one loan while another loan,
\* already approved, is stored.
C19_Witness ==
    /\ resp.function = "DisburseLoan"
    /\ resp.status = 200
    /\ \E k \in DOMAIN store :
          /\ k # resp.args[1]
          /\ store[k].status = "Approved"

\* A second principal, for requests that differ in the amount only, and the
\* loan that is requested with it
OtherAmountArgs == {"400"}
OtherAmountLoanIds == {"L1"}

\* Invoke("RequestLoan", ...) with the second principal
DoRequestLoanOtherAmount ==
    \E l \in OtherAmountLoanIds, b \in BorrowerIds, a \in OtherAmountArgs :
        \E r \in {Invoke(Stub(store, "none"), "RequestLoan",
                         <<l, b, a, "12">>)} :
            /\ Bounded(r.state)
            /\ store' = r.state
            /\ resp' = Response("RequestLoan", <<l, b, a, "12">>, r)
            /\ UNCHANGED <<version, txs, scstore, scerr>>

NextAmounts ==
    \/ Next
    \/ DoRequestLoanOtherAmount

\* The chaincode invoked with loans of two different principals
SpecAmounts == Init /\ [][NextAmounts]_vars

\* C16: for every stored loan, no invocation changes the stored amount.
C16_AmountFixedAtCreation ==
    [][\A l \in DOMAIN store :
          l \in DOMAIN store' => store'[l].amount = store[l].amount]_vars

(***************************************************************************)
(* SmartContract: the second contract of the source, on the contract API.  *)
(* Its Loan has no Collateral and no AuditHistory; its handlers take typed *)
(* parameters and return an error, "" standing for nil.                    *)
(***************************************************************************)
\* Loan{} of SmartContract: the zero value of the struct of lines 362-374
SmartContract_ZeroLoan ==
    [LoanID |-> "", BorrowerID |-> "", LenderID |-> "", Amount |-> Fin(0),
     InterestRate |-> Fin(0), Duration |-> 0, Status |-> "",
     DisbursementDate |-> "", RepaymentDue |-> Fin(0),
     RemainingBalance |-> Fin(0), Defaulted |-> FALSE]

\* json.Marshal of SmartContract's Loan: eleven keys
SmartContract_Marshal(loan) ==
    IF /\ IsFin(loan.Amount) /\ IsFin(loan.InterestRate)
       /\ IsFin(loan.RepaymentDue) /\ IsFin(loan.RemainingBalance)
    THEN [err |-> FALSE,
          bytes |-> [loanId |-> loan.LoanID,
                     borrowerId |-> loan.BorrowerID,
                     lenderId |-> loan.LenderID,
                     amount |-> loan.Amount.v,
                     interestRate |-> loan.InterestRate.v,
                     duration |-> loan.Duration,
                     status |-> loan.Status,
                     disbursementDate |-> loan.DisbursementDate,
                     repaymentDue |-> loan.RepaymentDue.v,
                     remainingBalance |-> loan.RemainingBalance.v,
                     defaulted |-> loan.Defaulted]]
    ELSE [err |-> TRUE, bytes |-> NilBytes]

\* json.Unmarshal into SmartContract's Loan: the keys the struct does not
\* have (collateral, auditHistory) are dropped
SmartContract_Unmarshal(bytes) ==
    IF "loanId" \notin DOMAIN bytes
    THEN [err |-> TRUE, loan |-> SmartContract_ZeroLoan]
    ELSE [err |-> FALSE,
          loan |-> [LoanID |-> bytes.loanId,
                    BorrowerID |-> bytes.borrowerId,
                    LenderID |-> bytes.lenderId,
                    Amount |-> Fin(bytes.amount),
                    InterestRate |-> Fin(bytes.interestRate),
                    Duration |-> bytes.duration,
                    Status |-> bytes.status,
                    DisbursementDate |-> bytes.disbursementDate,
                    RepaymentDue |-> Fin(bytes.repaymentDue),
                    RemainingBalance |-> Fin(bytes.remainingBalance),
                    Defaulted |-> bytes.defaulted]]

\* return nil and return fmt.Errorf(...), with the store the call leaves
\* behind; the text of a platform error (%v) is left out of the message
Nil(state) == [err |-> "", state |-> state]
Errorf(msg, state) == [err |-> msg, state |-> state]

\* The tail of SmartContract's handlers: json.Marshal, PutState, return nil
SmartContract_Save(stub, loanID, loan, failure) ==
    LET m == SmartContract_Marshal(loan)
    IN  IF m.err THEN Errorf("failed to marshal loan", stub.state)
        ELSE
        LET put == PutState(stub, loanID, m.bytes)
        IN  IF put.err THEN Errorf(failure, stub.state)
            ELSE Nil(put.state)

\* SmartContract.RequestLoan
SmartContract_RequestLoan(stub, loanID, borrowerID, amount, interestRate, duration) ==
    LET got == GetState(stub, loanID)
    IN  IF got.err THEN Errorf("failed to read loan state", stub.state)
        ELSE IF got.bytes # NilBytes
        THEN Errorf("the loan with ID " \o loanID \o " already exists",
                    stub.state)
        ELSE SmartContract_Save(stub, loanID,
                 [SmartContract_ZeroLoan EXCEPT
                     !.LoanID = loanID,
                     !.BorrowerID = borrowerID,
                     !.Amount = amount,
                     !.InterestRate = interestRate,
                     !.Duration = duration,
                     !.Status = "Pending",
                     !.RemainingBalance = amount],
                 "failed to create loan")

\* SmartContract.ApproveLoan
SmartContract_ApproveLoan(stub, loanID, lenderID) ==
    LET got == GetState(stub, loanID)
    IN  IF got.err THEN Errorf("failed to read loan state", stub.state)
        ELSE IF got.bytes = NilBytes
        THEN Errorf("loan with ID " \o loanID \o " not found", stub.state)
        ELSE
        LET u == SmartContract_Unmarshal(got.bytes)
        IN  IF u.err THEN Errorf("failed to unmarshal loan", stub.state)
            ELSE IF u.loan.Status # "Pending"
            THEN Errorf("loan with ID " \o loanID
                            \o " is not in Pending status", stub.state)
            ELSE SmartContract_Save(stub, loanID,
                     [u.loan EXCEPT !.LenderID = lenderID,
                                    !.Status = "Approved"],
                     "failed to approve loan")

\* SmartContract.RepayLoan, lines 480-484: the balance after a repayment is
\* never below 0
SmartContract_ApplyRepayment(loan, amount) ==
    LET balance == FSub(loan.RemainingBalance, amount)
    IN  IF FLeZero(balance)
        THEN [loan EXCEPT !.Status = "Repaid", !.RemainingBalance = Fin(0)]
        ELSE [loan EXCEPT !.RemainingBalance = balance]

\* SmartContract.RepayLoan
SmartContract_RepayLoan(stub, loanID, amount) ==
    LET got == GetState(stub, loanID)
    IN  IF got.err THEN Errorf("failed to read loan state", stub.state)
        ELSE IF got.bytes = NilBytes
        THEN Errorf("loan with ID " \o loanID \o " not found", stub.state)
        ELSE
        LET u == SmartContract_Unmarshal(got.bytes)
        IN  IF u.err THEN Errorf("failed to unmarshal loan", stub.state)
            ELSE IF u.loan.Status # "Active"
            THEN Errorf("loan with ID " \o loanID
                            \o " is not in Active status", stub.state)
            ELSE SmartContract_Save(stub, loanID,
                     SmartContract_ApplyRepayment(u.loan, amount),
                     "failed to repay loan")

\* The contract API in front of SmartContract: it takes the string
\* arguments of the transaction, converts each to the type of its parameter
\* and calls the handler; a wrong count or a failed conversion is an error
\* and the handler is not called
SmartContract_Call(stub, function, args) ==
    CASE function = "RequestLoan" ->
            IF Len(args) # 5
            THEN Errorf("Incorrect number of params", stub.state)
            ELSE
            LET amount == ParseFloat(args[3])
                interestRate == ParseFloat(args[4])
                duration == Atoi(args[5])
            IN  IF amount.err \/ interestRate.err \/ duration.err
                THEN Errorf("Error managing parameter", stub.state)
                ELSE SmartContract_RequestLoan(stub, args[1], args[2],
                         amount.val, interestRate.val, duration.val)
      [] function = "ApproveLoan" ->
            IF Len(args) # 2
            THEN Errorf("Incorrect number of params", stub.state)
            ELSE SmartContract_ApproveLoan(stub, args[1], args[2])
      [] function = "RepayLoan" ->
            IF Len(args) # 2
            THEN Errorf("Incorrect number of params", stub.state)
            ELSE
            LET amount == ParseFloat(args[2])
            IN  IF amount.err
                THEN Errorf("Error managing parameter", stub.state)
                ELSE SmartContract_RepayLoan(stub, args[1], amount.val)
      [] OTHER -> Errorf("Function not found", stub.state)

(***************************************************************************)
(* Both contracts, given the same calls.  They start from one store, empty *)
(* or holding an Active loan; every call goes to LoanContract on store and *)
(* to SmartContract on scstore, under the same platform fault.             *)
(***************************************************************************)
InterestRateArgs == {"12"}
\* The repayments given to both contracts: none is negative, so that the
\* balances stay within the principal on both sides
BothRepayArgs == RepayArgs \ {"-50"}

InitBoth ==
    /\ store \in {<< >>, ActiveStore}
    /\ scstore = store
    /\ resp = [function |-> "Init", args |-> << >>, status |-> 200,
               message |-> "", payload |-> NilBytes]
    /\ scerr = ""
    /\ version = << >>
    /\ txs = << >>

\* RequestLoan in both; SmartContract takes the interest rate as well
DoBothRequestLoan ==
    \E args \in RequestLoanArgs, rate \in InterestRateArgs,
       f \in WriteFaults :
        \E r \in {Invoke(Stub(store, f), "RequestLoan", args)},
           q \in {SmartContract_Call(Stub(scstore, f), "RequestLoan",
                      <<args[1], args[2], args[3], rate, args[4]>>)} :
            /\ Bounded(r.state)
            /\ store' = r.state
            /\ resp' = Response("RequestLoan", args, r)
            /\ scstore' = q.state
            /\ scerr' = q.err
            /\ UNCHANGED <<version, txs>>

DoBothApproveLoan ==
    \E args \in ApproveLoanArgs, f \in WriteFaults :
        \E r \in {Invoke(Stub(store, f), "ApproveLoan", args)},
           q \in {SmartContract_Call(Stub(scstore, f), "ApproveLoan", args)} :
            /\ Bounded(r.state)
            /\ store' = r.state
            /\ resp' = Response("ApproveLoan", args, r)
            /\ scstore' = q.state
            /\ scerr' = q.err
            /\ UNCHANGED <<version, txs>>

DoBothRepayLoan ==
    \E l \in LoanIds, a \in BothRepayArgs, f \in WriteFaults :
        \E r \in {Invoke(Stub(store, f), "RepayLoan", <<l, a>>)},
           q \in {SmartContract_Call(Stub(scstore, f), "RepayLoan",
                                     <<l, a>>)} :
            /\ Bounded(r.state)
            /\ store' = r.state
            /\ resp' = Response("RepayLoan", <<l, a>>, r)
            /\ scstore' = q.state
            /\ scerr' = q.err
            /\ UNCHANGED <<version, txs>>

NextBoth ==
    \/ DoBothRequestLoan
    \/ DoBothApproveLoan
    \/ DoBothRepayLoan

SpecBoth == InitBoth /\ [][NextBoth]_vars

\* C20: after every call given to both contracts, the call succeeded in
\* LoanContract exactly if it succeeded in SmartContract, both stores hold
\* the same loans, and every loan has the same status, lenderId and
\* remainingBalance in both.
C20_ContractsAgree ==
    /\ resp.status = 200 <=> scerr = ""
    /\ DOMAIN store = DOMAIN scstore
    /\ \A l \in (DOMAIN store) \cap (DOMAIN scstore) :
          /\ store[l].status = scstore[l].status
          /\ store[l].lenderId = scstore[l].lenderId
          /\ store[l].remainingBalance = scstore[l].remainingBalance

====
